---------------------------- MODULE Spec2Model ----------------------------
(***************************************************************************)
(* Model of src/src/common/chrome/proxy.ts: the module-level variable      *)
(* ChromeProxy, setChromeProxy (which builds a Proxy over the global       *)
(* `chrome` whose get traps close over the argument), getChromeProxy, and  *)
(* the module's own trailing call setChromeProxy(MyChromeProxy).           *)
(*                                                                         *)
(* JavaScript values are records tagged by k:                              *)
(*   "real"  the host API's own value at chrome.<path> (identity = path)   *)
(*   "root"  the Proxy of line 27, with the table its traps closed over    *)
(*   "wrap"  the nested Proxy of line 32 over chrome.<path>, same closure  *)
(*   "mock"  a substitute callable, named by id                            *)
(*   "undef" undefined;  "throw" a TypeError raised by the access          *)
(***************************************************************************)
EXTENDS Naturals, Sequences, FiniteSets, TLC

VARIABLES
    loaded,              \* the module body (lines 2 and 80) has run
    ChromeProxy,         \* line 2: let ChromeProxy
    registered,          \* argument of the most recent setChromeProxy call
    consumerRegistered,  \* some caller outside the module called setChromeProxy
    held,                \* a root a consumer got from getChromeProxy and kept
    obs,                 \* the consumer's last read or call, and what it got
    calls                \* invocations made during that read or call

vars == <<loaded, ChromeProxy, registered, consumerRegistered, held, obs, calls>>

(***************************************************************************)
(* Bounds.                                                                 *)
(***************************************************************************)
\* largest number of entries of a table a consumer registers
MaxKeys == 2

(***************************************************************************)
(* Property keys.  A key is a string or a symbol; symbols are written as   *)
(* strings starting with "@@".  SymTag is a symbol under which the host    *)
(* objects hold a value, SymNone one under which they hold nothing.        *)
(***************************************************************************)
SymTag == "@@toStringTag"
SymNone == "@@iterator"
Symbols == {SymTag, SymNone}

\* typeof prop === "string" (lines 29, 34)
IsString(prop) == prop \notin Symbols

(***************************************************************************)
(* The host API `chrome`: a slice of the real tree, by path from the root. *)
(***************************************************************************)
RealObjects ==
    { <<>>,
      <<"tabs">>, <<"tabs", "onCreated">>,
      <<"windows">>,
      <<"runtime">> }

RealFunctions ==
    { <<"tabs", "get">>,
      <<"tabs", "onCreated", "addListener">>,
      <<"windows", "create">>,
      <<"runtime", "sendMessage">> }

RealPrimitives ==
    { <<"tabs", "TAB_ID_NONE">>,
      <<SymTag>>, <<"tabs", SymTag>>, <<"runtime", SymTag>>,
      <<"tabs", "onCreated", SymTag>> }

RealPaths == RealObjects \cup RealFunctions \cup RealPrimitives

Undef == [k |-> "undef"]
Throw == [k |-> "throw"]
Real(path) == [k |-> "real", path |-> path]
Mock(id) == [k |-> "mock", id |-> id]

\* chrome.<path>: the value the host holds there, undefined when it holds none
chrome(path) == IF path \in RealPaths THEN Real(path) ELSE Undef

\* typeof v === "object" || typeof v === "function", v not null: what
\* `new Proxy(v, ...)` accepts as a target (line 32)
IsObject(v) == v.k = "real" /\ v.path \in RealObjects \cup RealFunctions

(***************************************************************************)
(* Tables.  An argument of setChromeProxy is an object mapping names to    *)
(* substitutes ("obj"), null or undefined ("nullish"), or another          *)
(* primitive ("prim").  A consumer's substitute under name n is Mock(n).   *)
(***************************************************************************)
KeySet ==
    { "tabs_get", "windows_create", "tabs_onCreated",
      "tabs_onCreated_addListener", "bogus_key" }

Table(S) == [k |-> "obj", keys |-> S, own |-> "consumer"]
UserTables == { Table(S) : S \in { X \in SUBSET KeySet : Cardinality(X) <= MaxKeys } }
Nullish == [k |-> "nullish"]
Prim == [k |-> "prim"]
Arguments == UserTables \cup {Nullish, Prim}

\* class MyChromeProxy (lines 73-78): one static method, windows_create
Kyf == Mock("MyChromeProxy.windows_create")
MyChromeProxy == [k |-> "obj", keys |-> {"windows_create"}, own |-> "module"]

NoArg == [k |-> "none"]

\* (chromeProxy as any)[mockMethodName]  (line 38): reading a property of null
\* or undefined raises a TypeError, of another primitive gives undefined
Lookup(chromeProxy, name) ==
    CASE chromeProxy.k = "nullish" -> Throw
      [] chromeProxy.k = "obj" /\ name \in chromeProxy.keys ->
            IF chromeProxy.own = "module" THEN Kyf ELSE Mock(name)
      [] OTHER -> Undef

\* if (mockMethod)  (line 39)
Truthy(v) == v.k \in {"mock", "real", "root", "wrap"}

(***************************************************************************)
(* The get traps.                                                          *)
(***************************************************************************)
\* `${prop}_${method}`  (line 36)
mockMethodName(prop, method) == prop \o "_" \o method

\* The nested trap answering undefined where the code falls back to the host.
NestedGetNoFallback(chromeProxy, prop, method) ==
    IF IsString(method)
    THEN LET mockMethod == Lookup(chromeProxy, mockMethodName(prop, method))
         IN  IF mockMethod = Throw THEN Throw
             ELSE IF Truthy(mockMethod) THEN mockMethod
             ELSE Undef
    ELSE Undef

\* get(targetProp, method) of the nested Proxy (lines 33-48);
\* targetProp is chrome[prop]
NestedGet(chromeProxy, prop, method) ==
    IF IsString(method)
    THEN LET mockMethod == Lookup(chromeProxy, mockMethodName(prop, method))
         IN  IF mockMethod = Throw THEN Throw
             ELSE IF Truthy(mockMethod) THEN mockMethod
             ELSE chrome(<<prop, method>>)
    ELSE Undef

\* get(target, prop) of the root Proxy (lines 28-54); target is chrome
RootGet(chromeProxy, prop) ==
    IF IsString(prop) /\ prop \in {"tabs", "windows"}
    THEN IF IsObject(chrome(<<prop>>))
         THEN [k |-> "wrap", path |-> <<prop>>, tbl |-> chromeProxy]
         ELSE Throw
    ELSE chrome(<<prop>>)

\* v[prop] for any value v
Get(v, prop) ==
    CASE v.k = "root" -> RootGet(v.tbl, prop)
      [] v.k = "wrap" -> NestedGet(v.tbl, v.path[1], prop)
      [] v.k = "real" ->
            IF v.path \in RealObjects \cup RealFunctions
            THEN chrome(Append(v.path, prop))
            ELSE Undef
      [] v.k = "mock" -> Undef
      [] OTHER -> Throw

\* v.s1. ... .sn
RECURSIVE GetPath(_, _)
GetPath(v, path) ==
    IF path = <<>> THEN v
    ELSE GetPath(Get(v, Head(path)), Tail(path))

\* The invocations a get trap itself makes while answering a read: the traps
\* of lines 28-54 contain no call expression.
TrapCallsEager(v, prop) ==
    LET r == Get(v, prop)
    IN  IF v.k = "wrap" /\ r.k \in {"mock", "real"}
        THEN << [fn |-> r, this |-> v, arg |-> "none", by |-> "layer"] >>
        ELSE << >>

TrapCalls(v, prop) == << >>

RECURSIVE PathCalls(_, _)
PathCalls(v, path) ==
    IF path = <<>> THEN << >>
    ELSE TrapCalls(v, Head(path)) \o PathCalls(Get(v, Head(path)), Tail(path))

Front(path) == SubSeq(path, 1, Len(path) - 1)
Last(path) == path[Len(path)]

\* The caller's f.call(recv, arg): what runs.  The module's own substitute
\* calls chrome.windows.create(createData) on the global chrome (line 76).
Invoke(f, recv, arg) ==
    CASE f = Kyf ->
            << [fn |-> f, this |-> recv, arg |-> arg, by |-> "caller"],
               [fn |-> Real(<<"windows", "create">>), this |-> Real(<<"windows">>),
                arg |-> arg, by |-> "substitute"] >>
      [] f.k = "mock" /\ f # Kyf ->
            << [fn |-> f, this |-> recv, arg |-> arg, by |-> "caller"] >>
      [] f.k = "real" /\ f.path \in RealFunctions ->
            << [fn |-> f, this |-> recv, arg |-> arg, by |-> "caller"] >>
      [] OTHER -> << >>

(***************************************************************************)
(* What consumers do.                                                      *)
(***************************************************************************)
\* every path the host holds, one step past each function leaf, and a symbol
\* the host does not hold, on the root and on a nested Proxy
ReadPaths ==
    (RealPaths \ {<<>>})
    \cup { Append(p, "e") : p \in RealFunctions }
    \cup { <<SymNone>>, <<"tabs", SymNone>> }
CallPaths == RealFunctions
Args == {"data", "5"}

NoRoot == [k |-> "none"]
NoObs == [op |-> "none"]
RootOf(via) == IF via = "current" THEN ChromeProxy ELSE held

(***************************************************************************)
(* Actions.                                                                *)
(***************************************************************************)
Init ==
    /\ loaded = FALSE
    /\ ChromeProxy = Real(<<>>)
    /\ registered = NoArg
    /\ consumerRegistered = FALSE
    /\ held = NoRoot
    /\ obs = NoObs
    /\ calls = << >>

\* A registration that keeps the entries of the table it replaces.
SetChromeProxyMerge(chromeProxy) ==
    /\ ChromeProxy' =
          [k |-> "root",
           tbl |-> IF chromeProxy.k = "obj" /\ ChromeProxy.k = "root"
                      /\ ChromeProxy.tbl.k = "obj"
                   THEN [chromeProxy EXCEPT !.keys = @ \cup ChromeProxy.tbl.keys]
                   ELSE chromeProxy]
    /\ registered' = chromeProxy

\* setChromeProxy(chromeProxy)  (lines 26-56)
setChromeProxy(chromeProxy) ==
    /\ ChromeProxy' = [k |-> "root", tbl |-> chromeProxy]
    /\ registered' = chromeProxy

\* The module body's last statement: setChromeProxy(MyChromeProxy) (line 80)
ModuleLoad ==
    /\ ~loaded
    /\ setChromeProxy(MyChromeProxy)
    /\ loaded' = TRUE
    /\ UNCHANGED <<consumerRegistered, held, obs, calls>>

\* A consumer calls setChromeProxy(arg)
Register(arg) ==
    /\ loaded
    /\ setChromeProxy(arg)
    /\ consumerRegistered' = TRUE
    /\ obs' = NoObs
    /\ calls' = << >>
    /\ UNCHANGED <<loaded, held>>

\* A consumer keeps r = getChromeProxy()  (lines 69-71)
getChromeProxy ==
    /\ loaded
    /\ held' = ChromeProxy
    /\ obs' = NoObs
    /\ calls' = << >>
    /\ UNCHANGED <<loaded, ChromeProxy, registered, consumerRegistered>>

\* A consumer reads r.s1. ... .sn through getChromeProxy() or the kept root
Read(via, path) ==
    /\ loaded
    /\ RootOf(via) # NoRoot
    /\ obs' = [op |-> "read", via |-> via, path |-> path,
               result |-> GetPath(RootOf(via), path)]
    /\ calls' = PathCalls(RootOf(via), path)
    /\ UNCHANGED <<loaded, ChromeProxy, registered, consumerRegistered, held>>

\* A consumer calls r.s1. ... .sn(arg)
Call(via, path, arg) ==
    /\ loaded
    /\ RootOf(via) # NoRoot
    /\ LET recv == GetPath(RootOf(via), Front(path))
           f == Get(recv, Last(path))
       IN  /\ obs' = [op |-> "call", via |-> via, path |-> path,
                      result |-> f, arg |-> arg]
           /\ calls' = PathCalls(RootOf(via), path) \o Invoke(f, recv, arg)
    /\ UNCHANGED <<loaded, ChromeProxy, registered, consumerRegistered, held>>

Next ==
    \/ ModuleLoad
    \/ \E arg \in Arguments : Register(arg)
    \/ getChromeProxy
    \/ \E via \in {"current", "held"}, path \in ReadPaths : Read(via, path)
    \/ \E via \in {"current", "held"}, path \in CallPaths, arg \in Args :
          Call(via, path, arg)

Spec == Init /\ [][Next]_vars

(***************************************************************************)
(* Vocabulary of the properties.                                           *)
(***************************************************************************)
\* segments joined by "_": the flattened key of a path
RECURSIVE Join(_)
Join(path) ==
    IF Len(path) = 1 THEN path[1]
    ELSE path[1] \o "_" \o Join(Tail(path))

AllStrings(path) == \A i \in 1..Len(path) : IsString(path[i])
\* the host's paths made of names only, and those ending in a leaf
NamedPaths == { p \in RealPaths : p # <<>> /\ AllStrings(p) }
LeafPaths == NamedPaths \cap (RealFunctions \cup RealPrimitives)
ProperPrefixes(path) == { SubSeq(path, 1, i) : i \in 1..(Len(path) - 1) }

\* the same access made on the host API itself
OnChrome(path) == GetPath(Real(<<>>), path)

IsTable(arg) == arg.k = "obj"
ReadNow == obs.op = "read" /\ obs.via = "current"
CallNow == obs.op = "call" /\ obs.via = "current"

(***************************************************************************)
(* C1.  Every key k of the registered table T that is the underscore-join  *)
(* of a path of the host API intercepts that path: a read of the path      *)
(* through getChromeProxy() returns T[k] itself, whatever the namespaces.  *)
(* Fails: lines 31 and 36 build keys only for <tabs|windows>_<name>.       *)
(***************************************************************************)
C1_RegisteredKeyIntercepts ==
    (ReadNow /\ IsTable(registered) /\ obs.path \in NamedPaths
        /\ Join(obs.path) \in registered.keys)
    => obs.result = Lookup(registered, Join(obs.path))

(***************************************************************************)
(* C2.  A read through getChromeProxy() of a path that ends in a function  *)
(* or primitive leaf of the host API and whose flattened key is not a key  *)
(* of the registered table returns the host's own value at that path.      *)
(* Fails as stated when the table holds the key of a prefix of the path.   *)
(***************************************************************************)
C2_Original ==
    (ReadNow /\ IsTable(registered) /\ obs.path \in LeafPaths
        /\ Join(obs.path) \notin registered.keys)
    => obs.result = Real(obs.path)

\* C2 as amended: the same, for a path none of whose proper prefixes has its
\* flattened key in the registered table either.
C2_UnregisteredPathIsReal ==
    (ReadNow /\ IsTable(registered) /\ obs.path \in LeafPaths
        /\ Join(obs.path) \notin registered.keys
        /\ \A q \in ProperPrefixes(obs.path) : Join(q) \notin registered.keys)
    => obs.result = Real(obs.path)

C2_Witness ==
    /\ ReadNow /\ IsTable(registered) /\ registered.own = "consumer"
    /\ registered.keys = {"windows_create", "bogus_key"}
    /\ obs.path = <<"tabs", "get">>
    /\ obs.result = Real(<<"tabs", "get">>)

(***************************************************************************)
(* C3.  Replace, not merge: with T1 registered earlier (a consumer still   *)
(* holds the root made for it) and T2 registered last, a read through      *)
(* getChromeProxy() of the path of a key of T1 that T2 lacks yields the    *)
(* host's value.  Fails as stated when T2 holds the key of a prefix of     *)
(* that path.                                                              *)
(***************************************************************************)
EarlierAndLast ==
    /\ held.k = "root" /\ IsTable(held.tbl) /\ IsTable(registered)
    /\ ReadNow /\ obs.path \in NamedPaths
    /\ Join(obs.path) \in held.tbl.keys \ registered.keys

C3_Original ==
    EarlierAndLast => obs.result = Real(obs.path)

\* C3 as amended: the read yields what a root made for T2 alone yields, and
\* that is the host's value when T2 holds no key of a proper prefix of the path.
C3_ReplaceNotMerge ==
    EarlierAndLast =>
        /\ obs.result = GetPath([k |-> "root", tbl |-> registered], obs.path)
        /\ (\A q \in ProperPrefixes(obs.path) : Join(q) \notin registered.keys)
              => obs.result = Real(obs.path)

C3_Witness ==
    /\ EarlierAndLast
    /\ held.tbl = Table({"tabs_get"})
    /\ registered = Table({"windows_create"})
    /\ obs.path = <<"tabs", "get">>
    /\ obs.result = Real(<<"tabs", "get">>)

(***************************************************************************)
(* C4.  Lazy lookup: a read made through a root obtained before the last   *)
(* setChromeProxy call is resolved against the table registered last, so   *)
(* it gives what the same read through getChromeProxy() gives now.         *)
(* Fails: the traps close over the parameter chromeProxy (lines 26, 38).   *)
(***************************************************************************)
C4_HeldRootReadsCurrentTable ==
    (obs.op = "read" /\ obs.via = "held" /\ held.k = "root"
        /\ IsTable(held.tbl) /\ IsTable(registered) /\ obs.result.k # "wrap")
    => obs.result = GetPath(ChromeProxy, obs.path)

(***************************************************************************)
(* C5.  Exact matching at any depth: with a key registered for the path    *)
(* s1..sn, the read of s1..sn returns the substitute, and the read of a    *)
(* proper prefix or of a one-step extension of the path does not.          *)
(* Fails for n = 3: the key of tabs.onCreated.addListener is never looked  *)
(* up.                                                                     *)
(***************************************************************************)
C5_ExactPathAtAnyDepth ==
    (ReadNow /\ IsTable(registered)) =>
        \A p \in NamedPaths :
            Join(p) \in registered.keys =>
                LET f == Lookup(registered, Join(p))
                IN  /\ obs.path = p => obs.result = f
                    /\ obs.path \in ProperPrefixes(p) => obs.result # f
                    /\ (Len(obs.path) = Len(p) + 1 /\ Front(obs.path) = p)
                          => obs.result # f

(***************************************************************************)
(* C6.  Until a consumer calls setChromeProxy no read through              *)
(* getChromeProxy() yields a substitute: the loaded module delegates       *)
(* every access to the host API.                                           *)
(* Fails: the module body itself registers MyChromeProxy (line 80).        *)
(***************************************************************************)
C6_NoSubstituteBeforeRegistration ==
    (loaded /\ ~consumerRegistered /\ ReadNow /\ AllStrings(obs.path))
    => /\ obs.result.k # "mock"
       /\ obs.result.k # "wrap" => obs.result = OnChrome(obs.path)

(***************************************************************************)
(* C7.  A read under a symbol key, on the root Proxy or on a nested Proxy, *)
(* returns undefined, whatever the host holds under that key.              *)
(* Fails on the root: line 53 returns target[prop] for a symbol.           *)
(***************************************************************************)
C7_SymbolKeyReadsUndefined ==
    (obs.op = "read" /\ Last(obs.path) \in Symbols
        /\ GetPath(RootOf(obs.via), Front(obs.path)).k \in {"root", "wrap"})
    => obs.result = Undef

(***************************************************************************)
(* C8.  After registering a malformed or empty argument (an empty object,  *)
(* an object whose keys match no path, null, undefined or another          *)
(* non-object) every access through getChromeProxy() gives what the same   *)
(* access on the host API gives, and raises nothing.                       *)
(* Fails for null and undefined: line 38 reads a property of the argument. *)
(***************************************************************************)
Malformed(arg) ==
    arg \in {Nullish, Prim, Table({}), Table({"bogus_key"})}

C8_MalformedRegistrationDelegates ==
    (consumerRegistered /\ Malformed(registered)
        /\ obs.op \in {"read", "call"} /\ obs.via = "current"
        /\ AllStrings(obs.path))
    => /\ obs.result # Throw
       /\ obs.result.k # "wrap" => obs.result = OnChrome(obs.path)

(***************************************************************************)
(* C9.  The layer never invokes anything.  A read invokes nothing; the     *)
(* call root.windows.create(data) with windows_create registered as a      *)
(* consumer's mock invokes that mock once with data and not the host's     *)
(* windows.create; the call root.tabs.get(5) with no tabs_get in the       *)
(* registered table invokes the host's tabs.get once with 5.               *)
(***************************************************************************)
C9_PassThroughInvocation ==
    /\ obs.op = "read" => calls = << >>
    /\ \A i \in 1..Len(calls) : calls[i].by # "layer"
    /\ (CallNow /\ obs.path = <<"windows", "create">> /\ IsTable(registered)
          /\ registered.own = "consumer" /\ "windows_create" \in registered.keys)
       => /\ Len(calls) = 1
          /\ calls[1].fn = Mock("windows_create")
          /\ calls[1].arg = obs.arg
    /\ (CallNow /\ obs.path = <<"tabs", "get">> /\ IsTable(registered)
          /\ "tabs_get" \notin registered.keys)
       => /\ Len(calls) = 1
          /\ calls[1].fn = Real(<<"tabs", "get">>)
          /\ calls[1].arg = obs.arg

C9_Witness ==
    /\ CallNow /\ obs.path = <<"windows", "create">>
    /\ registered = Table({"windows_create"})
    /\ obs.arg = "data"
    /\ Len(calls) = 1 /\ calls[1].fn = Mock("windows_create")

(***************************************************************************)
(* C10.  A host function that is not overridden keeps its receiver: in the *)
(* call root.ns.fn(arg) with ns_fn not registered, the host's fn runs with *)
(* this = chrome.ns.                                                       *)
(* Fails for ns = tabs and windows: line 44 returns the function unbound   *)
(* and the caller's receiver is the nested Proxy of line 32.               *)
(***************************************************************************)
C10_RealFunctionKeepsReceiver ==
    (CallNow /\ IsTable(registered) /\ Len(obs.path) = 2
        /\ Join(obs.path) \notin registered.keys
        /\ obs.result = Real(obs.path) /\ calls # << >>)
    => calls[1].this = Real(Front(obs.path))

=============================================================================
